---- MODULE Spec2Model ----
(***************************************************************************)
(* Model of src/seo-enhancer.js: the top-level script evaluation, the      *)
(* DOMContentLoaded handler and the functions both call, acting on a small *)
(* DOM (the children of <body>, the landmark elements found by selector,   *)
(* the <head> script blocks and the root element's attributes).            *)
(*                                                                         *)
(* JavaScript runs each callback to completion, so every function of the   *)
(* source is one action.  An uncaught TypeError ends the callback (or the  *)
(* script evaluation) that raised it; what it had changed so far stays.    *)
(***************************************************************************)
EXTENDS Integers, Sequences, FiniteSets, TLC

VARIABLES
    page,          \* the children of <body> as authored (never changes)
    title,         \* document.title
    hasBeacon,     \* the runtime defines navigator.sendBeacon
    hasLoadingProp,\* the runtime implements HTMLImageElement.loading
    bodyParsed,    \* <body> has been parsed (document.body is not null)
    landmarks,     \* selector -> attributes, for main, nav and the #sections present
    body,          \* the live children of <body>
    head,          \* the script blocks appended to <head>
    rootAttrs,     \* attributes of document.documentElement
    beacons,       \* URLs handed to navigator.sendBeacon
    listening,     \* the DOMContentLoaded listener is registered
    readyFired,    \* DOMContentLoaded has been dispatched
    pcScript,      \* next top-level statement; 0 after an uncaught exception
    pcHandler,     \* next handler statement; 0 after an uncaught exception
    keywordReport, \* the constant keywordReport (<<>> until assigned)
    console,       \* what console.log has written
    trace          \* history: the calls that returned, and the ready signal

vars == <<page, title, hasBeacon, hasLoadingProp, bodyParsed, landmarks, body,
          head, rootAttrs, beacons, listening, readyFired, pcScript, pcHandler,
          keywordReport, console, trace>>

----------------------------------------------------------------------------
(* Bounds of the explored inputs. *)

MaxNodes == 3
MaxParas == 2
MaxRuns == 3

----------------------------------------------------------------------------
(* Elements and attributes. *)

NoAttrs == [n \in {} |-> ""]

SetAttribute(attrs, name, value) ==
    [n \in (DOMAIN attrs) \cup {name} |-> IF n = name THEN value ELSE attrs[n]]

RemoveAttribute(attrs, name) ==
    [n \in (DOMAIN attrs) \ {name} |-> attrs[n]]

HasAttribute(el, name) == name \in DOMAIN el.attrs

ClassList(el) == IF HasAttribute(el, "class") THEN el.attrs["class"] ELSE {}

ClassListAdd(attrs, token) ==
    SetAttribute(attrs, "class",
                 (IF "class" \in DOMAIN attrs THEN attrs["class"] ELSE {}) \cup {token})

Element(tag, attrs, kids, text) ==
    [tag |-> tag, attrs |-> attrs, kids |-> kids, text |-> text]

RECURSIVE ConcatText(_)
RECURSIVE TextContent(_)
\* Node.textContent: the text of the node and of its descendants, in order.
TextContent(el) == el.text \o ConcatText(el.kids)
ConcatText(els) ==
    IF els = <<>> THEN "" ELSE TextContent(Head(els)) \o ConcatText(Tail(els))

----------------------------------------------------------------------------
(* Strings. *)

StartsWith(s, prefix) ==
    Len(s) >= Len(prefix) /\ SubSeq(s, 1, Len(prefix)) = prefix

CharAt(s, i) == SubSeq(s, i, i)

RECURSIVE IndexOfAny(_, _, _)
\* The first index >= i of s holding one of chars; Len(s) + 1 when there is none.
IndexOfAny(s, chars, i) ==
    IF i > Len(s) THEN Len(s) + 1
    ELSE IF CharAt(s, i) \in chars THEN i
    ELSE IndexOfAny(s, chars, i + 1)

LowerOf ==
    [c \in {"A", "B", "C", "D", "E", "F", "G", "H", "I", "J", "K", "L", "M",
            "N", "O", "P", "Q", "R", "S", "T", "U", "V", "W", "X", "Y", "Z"} |->
        CASE c = "A" -> "a" [] c = "B" -> "b" [] c = "C" -> "c" [] c = "D" -> "d"
          [] c = "E" -> "e" [] c = "F" -> "f" [] c = "G" -> "g" [] c = "H" -> "h"
          [] c = "I" -> "i" [] c = "J" -> "j" [] c = "K" -> "k" [] c = "L" -> "l"
          [] c = "M" -> "m" [] c = "N" -> "n" [] c = "O" -> "o" [] c = "P" -> "p"
          [] c = "Q" -> "q" [] c = "R" -> "r" [] c = "S" -> "s" [] c = "T" -> "t"
          [] c = "U" -> "u" [] c = "V" -> "v" [] c = "W" -> "w" [] c = "X" -> "x"
          [] c = "Y" -> "y" [] c = "Z" -> "z"]

RECURSIVE ToLowerCase(_)
\* String.prototype.toLowerCase on the letters the inputs use.
ToLowerCase(s) ==
    IF s = "" THEN ""
    ELSE LET c == CharAt(s, 1)
         IN  (IF c \in DOMAIN LowerOf THEN LowerOf[c] ELSE c)
                 \o ToLowerCase(SubSeq(s, 2, Len(s)))

RECURSIVE EncodeURIComponent(_)
\* encodeURIComponent: ':' and '/' are the reserved characters an origin
\* followed by '/sitemap.xml' holds; letters, digits and '.' are kept.
EncodeURIComponent(s) ==
    IF s = "" THEN ""
    ELSE LET c == CharAt(s, 1)
         IN  (CASE c = ":" -> "%3A" [] c = "/" -> "%2F" [] OTHER -> c)
                 \o EncodeURIComponent(SubSeq(s, 2, Len(s)))

----------------------------------------------------------------------------
(* URLs. *)

\* window.location.origin; relative references resolve against Origin + "/".
Origin == "https://site.test"

SchemeLen(s) ==
    IF StartsWith(s, "https://") THEN 8
    ELSE IF StartsWith(s, "http://") THEN 7
    ELSE 0

HostEnd(s) == IndexOfAny(s, {"/", "?", "#"}, SchemeLen(s) + 1)

ForbiddenHostChars == {" ", "[", "]", "<", ">", "^", "|", "%"}

\* new URL(s) without a base: an absolute http(s) URL with a well-formed
\* host parses; anything else raises TypeError.
URLParses(s) ==
    /\ SchemeLen(s) > 0
    /\ HostEnd(s) > SchemeLen(s) + 1
    /\ IndexOfAny(s, ForbiddenHostChars, SchemeLen(s) + 1) >= HostEnd(s)

\* new URL(s).pathname, for s that parses.
Pathname(s) ==
    LET from == HostEnd(s)
        to == IndexOfAny(s, {"?", "#"}, from)
    IN  IF to = from THEN "/" ELSE SubSeq(s, from, to - 1)

\* The href (or src) IDL attribute: the content attribute resolved against the
\* document; the content attribute itself when it cannot be parsed.
ResolvedURL(attr) ==
    IF SchemeLen(attr) > 0
    THEN IF URLParses(attr) /\ HostEnd(attr) > Len(attr) THEN attr \o "/" ELSE attr
    ELSE IF StartsWith(attr, "/") THEN Origin \o attr
    ELSE Origin \o "/" \o attr

----------------------------------------------------------------------------
(* The pages explored. *)

Titles == {"Mansoor Ahmad | SEO"}

HrefAttrs == {"/portfolio", "https://example.org/blog?p=1", "http://[bad"}

Anchor(href) == Element("a", [href |-> href], <<>>, "")

Img(attrs) == Element("img", attrs, <<>>, "")

Heading(text) == Element("h3", NoAttrs, <<>>, text)

PortfolioItem(kids) == Element("div", [class |-> {"portfolio-item"}], kids, "")

Paragraph(text) == Element("p", NoAttrs, <<>>, text)

NodeKinds ==
    {Anchor(h) : h \in HrefAttrs}
        \cup {Img([src |-> "me.png"]), Img([src |-> "me.png", loading |-> "lazy"])}
        \cup {PortfolioItem(<<Heading("Portfolio site")>>), PortfolioItem(<<>>)}

Pages == UNION {[1..n -> NodeKinds] : n \in 0..MaxNodes}

PageSections == {"#about", "#services"}

LandmarkChoices == {L \cup PageSections : L \in SUBSET {"main", "nav"}}

IsTag(el, tag) == el.tag = tag

IsPortfolioItem(el) == "portfolio-item" \in ClassList(el)

\* item.querySelector('h3'): the h3 children of the item (<<>> stands for null).
QueryHeading(item) == SelectSeq(item.kids, LAMBDA k : IsTag(k, "h3"))

----------------------------------------------------------------------------
(* enhanceSemanticStructure *)

\* Lines 33-34, which run before line 35 dereferences the heading.
AnnotateItemType(el) ==
    [el EXCEPT !.attrs =
        SetAttribute(SetAttribute(@, "itemscope", ""),
                     "itemtype", "https://schema.org/CreativeWork")]

\* Lines 33-35 on an item that has a heading.
AnnotateItem(el) ==
    [AnnotateItemType(el) EXCEPT !.attrs =
        SetAttribute(@, "aria-label",
                     "Portfolio project: " \o TextContent(QueryHeading(el)[1]))]

\* The first portfolio item whose querySelector('h3') is null; 0 when none.
FirstWithoutHeading(b) ==
    LET bad == {i \in DOMAIN b : IsPortfolioItem(b[i]) /\ QueryHeading(b[i]) = <<>>}
    IN  IF bad = {} THEN 0 ELSE CHOOSE i \in bad : \A j \in bad : i <= j

\* The forEach of lines 32-36: it stops at the first item without a heading,
\* whose null.textContent raises TypeError after lines 33-34 have run.
EnhancePortfolioItems(b) ==
    LET bad == FirstWithoutHeading(b)
    IN  [i \in DOMAIN b |->
            IF ~IsPortfolioItem(b[i]) \/ (bad # 0 /\ i > bad) THEN b[i]
            ELSE IF i = bad THEN AnnotateItemType(b[i])
            ELSE AnnotateItem(b[i])]

\* The whole function: the landmarks and body it leaves, and whether it threw.
EnhanceSemanticStructure(lm, b) ==
    IF "main" \notin DOMAIN lm
    THEN [landmarks |-> lm, body |-> b, threw |-> TRUE]
    ELSE LET lm1 == [lm EXCEPT !["main"] = SetAttribute(@, "role", "main")]
         IN  IF "nav" \notin DOMAIN lm
             THEN [landmarks |-> lm1, body |-> b, threw |-> TRUE]
             ELSE [landmarks |->
                       [lm1 EXCEPT !["nav"] =
                           SetAttribute(SetAttribute(@, "itemscope", ""), "itemtype",
                                        "https://schema.org/SiteNavigationElement")],
                   body |-> EnhancePortfolioItems(b),
                   threw |-> FirstWithoutHeading(b) # 0]

----------------------------------------------------------------------------
(* addBotOnlyContent *)

BotStyle == "position:absolute;left:-9999px;top:-9999px;height:1px;width:1px;overflow:hidden;"

BotContent(docTitle) ==
    Element("div", [class |-> {"bot-only-content"}, style |-> BotStyle],
        << Element("h2", NoAttrs, <<>>, "Mansoor Ahmad SEO Services"),
           Element("p", NoAttrs, <<>>, "Professional SEO services including:"),
           Element("ul", NoAttrs,
               << Element("li", NoAttrs, <<>>, "Keyword research for \"" \o docTitle \o "\""),
                  Element("li", NoAttrs, <<>>, "On-page optimization techniques"),
                  Element("li", NoAttrs, <<>>, "Technical SEO audits"),
                  Element("li", NoAttrs, <<>>, "Off-page link building strategies"),
                  Element("li", NoAttrs, <<>>, "Local SEO for Pakistani businesses") >>, ""),
           Element("p", NoAttrs, <<>>,
                   "Contact Mansoor Ahmad for top-ranking SEO solutions in Pakistan.") >>,
        "")

\* Variant of AddBotOnlyContent that appends nothing when a block is there.
AddBotOnlyContentOnce(b, docTitle) ==
    IF \E i \in DOMAIN b : "bot-only-content" \in ClassList(b[i])
    THEN b ELSE Append(b, BotContent(docTitle))

\* Lines 41-58.
AddBotOnlyContent(b, docTitle) == Append(b, BotContent(docTitle))

----------------------------------------------------------------------------
(* optimizeMediaLoading *)

\* What reads as undefined: a property the runtime does not define.
Undefined == "<undefined>"

Falsy(v) == v \in {"", Undefined}

\* img.loading: where implemented it reflects the loading attribute limited
\* to its known values, "eager" being the default when it is missing.
LoadingProperty(img, implemented) ==
    IF ~implemented THEN Undefined
    ELSE IF HasAttribute(img, "loading") /\ ToLowerCase(img.attrs["loading"]) = "lazy"
         THEN "lazy" ELSE "eager"

\* img.src: "" without a src attribute, else the resolved URL.
SrcProperty(img) == IF HasAttribute(img, "src") THEN ResolvedURL(img.attrs["src"]) ELSE ""

AltProperty(img) == IF HasAttribute(img, "alt") THEN img.attrs["alt"] ELSE ""

\* Lines 66-68.
LazyImg(img) ==
    [img EXCEPT !.attrs =
        ClassListAdd(RemoveAttribute(SetAttribute(@, "data-src", SrcProperty(img)), "src"),
                     "lazyload")]

\* Lines 71-75.
NoscriptFallback(img) ==
    Element("noscript", NoAttrs,
        << Img([src |-> SrcProperty(img),
                alt |-> IF Falsy(AltProperty(img)) THEN "Portfolio image"
                        ELSE AltProperty(img)]) >>,
        "")

RECURSIVE OptimizeMediaLoading(_, _)
\* The children after the forEach: each image whose loading property is
\* falsy is rewritten and gets its noscript fallback inserted before it.
OptimizeMediaLoading(b, implemented) ==
    IF b = <<>> THEN <<>>
    ELSE LET el == Head(b)
             rest == OptimizeMediaLoading(Tail(b), implemented)
         IN  IF IsTag(el, "img") /\ Falsy(LoadingProperty(el, implemented))
             THEN <<NoscriptFallback(el), LazyImg(el)>> \o rest
             ELSE <<el>> \o rest

----------------------------------------------------------------------------
(* generateDynamicSitemap *)

\* Array.from(document.querySelectorAll('a[href]')).map(a => a.href)
Links(b) ==
    LET anchors == SelectSeq(b, LAMBDA el : IsTag(el, "a") /\ HasAttribute(el, "href"))
    IN  [i \in DOMAIN anchors |-> ResolvedURL(anchors[i].attrs["href"])]

Range(seq) == {seq[i] : i \in DOMAIN seq}

RECURSIVE UniqueLinksNoDedup(_)
\* Variant of UniqueLinks that keeps every link (no Set).
UniqueLinksNoDedup(links) ==
    IF links = <<>> THEN <<>>
    ELSE Append(UniqueLinksNoDedup(SubSeq(links, 1, Len(links) - 1)), links[Len(links)])

RECURSIVE UniqueLinks(_)
\* [...new Set(links)]: a Set keeps its values in insertion order, so each
\* link stays at the place of its first occurrence.
UniqueLinks(links) ==
    IF links = <<>> THEN <<>>
    ELSE LET before == UniqueLinks(SubSeq(links, 1, Len(links) - 1))
             last == links[Len(links)]
         IN  IF last \in Range(before) THEN before ELSE Append(before, last)

SitemapStyle == "position:absolute;left:-9999px;width:1px;height:1px;overflow:hidden;"

\* One <li><a href="link">pathname</a></li> of line 92.
SitemapEntry(link) ==
    Element("li", NoAttrs, << Element("a", [href |-> link], <<>>, Pathname(link)) >>, "")

SitemapBlock(unique) ==
    Element("div", [class |-> {"hidden-sitemap"}, style |-> SitemapStyle],
        << Element("h2", NoAttrs, <<>>, "Website Structure"),
           Element("ul", NoAttrs, [i \in DOMAIN unique |-> SitemapEntry(unique[i])], "") >>,
        "")

\* The whole function: new URL(link) of line 92 raises TypeError on a link
\* that does not parse, before the block is appended at line 96.
GenerateDynamicSitemap(b) ==
    LET unique == UniqueLinks(Links(b))
    IN  IF \E i \in DOMAIN unique : ~URLParses(unique[i])
        THEN [body |-> b, threw |-> TRUE]
        ELSE [body |-> Append(b, SitemapBlock(unique)), threw |-> FALSE]

----------------------------------------------------------------------------
(* sendIndexingSignals *)

PingUrl ==
    "https://www.google.com/ping?sitemap=" \o EncodeURIComponent(Origin \o "/sitemap.xml")

\* Variant of SendBeacons with the capability test inverted.
SendBeaconsInverted(sent, capable) ==
    IF ~capable THEN Append(sent, PingUrl) ELSE sent

\* Lines 101-104.
SendBeacons(sent, capable) ==
    IF capable THEN Append(sent, PingUrl) ELSE sent

----------------------------------------------------------------------------
(* ContentPrioritizer *)

ImportantSections == <<"#about", "#portfolio", "#services", "#testimonials">>

\* addPriorityTags: document.querySelector finds a section only once the
\* body holding it has been parsed.
AddPriorityTags(lm, parsed) ==
    [sel \in DOMAIN lm |->
        IF parsed /\ sel \in Range(ImportantSections)
        THEN SetAttribute(SetAttribute(lm[sel], "data-seo-priority", "high"),
                          "aria-live", "polite")
        ELSE lm[sel]]

----------------------------------------------------------------------------
(* analyzeKeywordDensity *)

Keywords ==
    {"mansoor ahmad", "seo specialist", "portfolio", "keyword research",
     "technical seo", "pakistan seo expert"}

\* A match of new RegExp(keyword, 'gi') at index i: the keywords hold only
\* letters and spaces, so the pattern is the literal text, compared
\* ignoring case.
MatchesAt(keyword, content, i) ==
    /\ i + Len(keyword) - 1 <= Len(content)
    /\ ToLowerCase(SubSeq(content, i, i + Len(keyword) - 1)) = ToLowerCase(keyword)

RECURSIVE CountFrom(_, _, _)
\* The matches a global regular expression finds from index i on: each
\* search resumes after the end of the previous match.
CountFrom(keyword, content, i) ==
    IF i + Len(keyword) - 1 > Len(content) THEN 0
    ELSE IF MatchesAt(keyword, content, i)
         THEN 1 + CountFrom(keyword, content, i + Len(keyword))
         ELSE CountFrom(keyword, content, i + 1)

\* Variant of CountMatches without the g flag: match() then returns the
\* first match alone.
CountMatchesFirstOnly(keyword, content) ==
    IF CountFrom(keyword, content, 1) > 0 THEN 1 ELSE 0

\* Lines 149-151: matches ? matches.length : 0.
CountMatches(keyword, content) == CountFrom(keyword, content, 1)

\* Lines 137-154, for a document whose body is not null.
AnalyzeKeywordDensity(b) ==
    LET content == ToLowerCase(ConcatText(b))
    IN  [k \in Keywords |-> CountMatches(k, content)]

----------------------------------------------------------------------------
(* The structured-data blocks. *)

LdJson(schema) == [tag |-> "script", type |-> "application/ld+json", json |-> schema]

PersonSchema ==
    ("@context" :> "https://schema.org") @@ ("@type" :> "Person")
        @@ ("name" :> "Mansoor Ahmad") @@ ("jobTitle" :> "SEO Specialist")
        @@ ("url" :> "https://yourportfolio.com")

Breadcrumbs ==
    << [name |-> "Home", url |-> "https://yourportfolio.com/"],
       [name |-> "Portfolio", url |-> "https://yourportfolio.com/portfolio"],
       [name |-> "SEO Services", url |-> "https://yourportfolio.com/seo"] >>

BreadcrumbSchema ==
    ("@context" :> "https://schema.org") @@ ("@type" :> "BreadcrumbList")
        @@ ("itemListElement" :>
                [i \in DOMAIN Breadcrumbs |->
                    ("@type" :> "ListItem") @@ ("position" :> i)
                        @@ ("name" :> Breadcrumbs[i].name)
                        @@ ("item" :> Breadcrumbs[i].url)])

Faqs ==
    << [question |-> "What SEO services do you offer?",
        answer |-> "I provide keyword research, on-page SEO, technical SEO, and link building."],
       [question |-> "How long does SEO take to show results?",
        answer |-> "Typically 3-6 months for noticeable improvements."] >>

FAQSchema ==
    ("@context" :> "https://schema.org") @@ ("@type" :> "FAQPage")
        @@ ("mainEntity" :>
                [i \in DOMAIN Faqs |->
                    ("@type" :> "Question") @@ ("name" :> Faqs[i].question)
                        @@ ("acceptedAnswer" :>
                                (("@type" :> "Answer") @@ ("text" :> Faqs[i].answer)))])

----------------------------------------------------------------------------
(* The script: its top-level statements and the ready handler's, in order. *)

ScriptStatements ==
    << "addEventListener", "ContentPrioritizer", "analyzeKeywordDensity", "console.log",
       "generatePersonSchema", "generateBreadcrumbSchema", "generateFAQSchema" >>

\* Variant of HandlerSteps that dispatches the indexing signal first.
HandlerStepsSignalFirst ==
    << "sendIndexingSignals", "enhanceSemanticStructure", "addBotOnlyContent",
       "optimizeMediaLoading", "generateDynamicSitemap" >>

HandlerSteps ==
    << "enhanceSemanticStructure", "addBotOnlyContent", "optimizeMediaLoading",
       "generateDynamicSitemap", "sendIndexingSignals" >>

ScriptAt(name) ==
    pcScript \in DOMAIN ScriptStatements /\ ScriptStatements[pcScript] = name

ScriptEnded == pcScript \notin DOMAIN ScriptStatements

HandlerAt(name) ==
    /\ readyFired /\ listening
    /\ pcHandler \in DOMAIN HandlerSteps /\ HandlerSteps[pcHandler] = name

HandlerEnded == readyFired /\ pcHandler \notin DOMAIN HandlerSteps

\* A top-level call returns, or its exception ends the script evaluation.
ScriptReturn(name, threw) ==
    /\ pcScript' = IF threw THEN 0 ELSE pcScript + 1
    /\ trace' = IF threw THEN trace ELSE Append(trace, name)

\* A call of the handler returns, or its exception ends the handler.
HandlerReturn(name, threw) ==
    /\ pcHandler' = IF threw THEN 0 ELSE pcHandler + 1
    /\ trace' = IF threw THEN trace ELSE Append(trace, name)

inputs == <<page, title, hasBeacon, hasLoadingProp>>

InitDocument(pages) ==
    /\ page \in pages
    /\ title \in Titles
    /\ body = page
    /\ head = <<>>
    /\ rootAttrs = NoAttrs
    /\ beacons = <<>>
    /\ listening = FALSE
    /\ readyFired = FALSE
    /\ pcScript = 1
    /\ pcHandler = 1
    /\ keywordReport = <<>>
    /\ console = <<>>
    /\ trace = <<>>

Init ==
    /\ InitDocument(Pages)
    /\ hasBeacon \in BOOLEAN
    /\ hasLoadingProp \in BOOLEAN
    /\ bodyParsed \in BOOLEAN
    /\ landmarks \in {[sel \in L |-> NoAttrs] : L \in LandmarkChoices}

(* Top-level statements. *)

AddEventListener ==
    /\ ScriptAt("addEventListener")
    /\ listening' = TRUE
    /\ ScriptReturn("addEventListener", FALSE)
    /\ UNCHANGED <<inputs, bodyParsed, landmarks, body, head, rootAttrs, beacons,
                   readyFired, pcHandler, keywordReport, console>>

NewContentPrioritizer ==
    /\ ScriptAt("ContentPrioritizer")
    /\ landmarks' = AddPriorityTags(landmarks, bodyParsed)
    /\ ScriptReturn("ContentPrioritizer", FALSE)
    /\ UNCHANGED <<inputs, bodyParsed, body, head, rootAttrs, beacons, listening,
                   readyFired, pcHandler, keywordReport, console>>

\* Line 159; document.body is null until <body> is parsed, and line 137
\* then raises TypeError.
CallAnalyzeKeywordDensity ==
    /\ ScriptAt("analyzeKeywordDensity")
    /\ keywordReport' = IF bodyParsed THEN AnalyzeKeywordDensity(body) ELSE keywordReport
    /\ ScriptReturn("analyzeKeywordDensity", ~bodyParsed)
    /\ UNCHANGED <<inputs, bodyParsed, landmarks, body, head, rootAttrs, beacons,
                   listening, readyFired, pcHandler, console>>

ConsoleLog ==
    /\ ScriptAt("console.log")
    /\ console' = Append(console, <<"Keyword Density Report:", keywordReport>>)
    /\ ScriptReturn("console.log", FALSE)
    /\ UNCHANGED <<inputs, bodyParsed, landmarks, body, head, rootAttrs, beacons,
                   listening, readyFired, pcHandler, keywordReport>>

AppendToHead(name, schema) ==
    /\ ScriptAt(name)
    /\ head' = Append(head, LdJson(schema))
    /\ ScriptReturn(name, FALSE)
    /\ UNCHANGED <<inputs, bodyParsed, landmarks, body, rootAttrs, beacons, listening,
                   readyFired, pcHandler, keywordReport, console>>

GeneratePersonSchema == AppendToHead("generatePersonSchema", PersonSchema)

GenerateBreadcrumbSchema == AppendToHead("generateBreadcrumbSchema", BreadcrumbSchema)

GenerateFAQSchema == AppendToHead("generateFAQSchema", FAQSchema)

\* The ready signal: dispatched once, after the parser has finished and the
\* script evaluation has ended.
DOMContentLoaded ==
    /\ ScriptEnded /\ ~readyFired
    /\ readyFired' = TRUE
    /\ bodyParsed' = TRUE
    /\ trace' = Append(trace, "DOMContentLoaded")
    /\ UNCHANGED <<inputs, landmarks, body, head, rootAttrs, beacons, listening,
                   pcScript, pcHandler, keywordReport, console>>

(* The handler's statements. *)

CallEnhanceSemanticStructure ==
    /\ HandlerAt("enhanceSemanticStructure")
    /\ LET r == EnhanceSemanticStructure(landmarks, body)
       IN  /\ landmarks' = r.landmarks
           /\ body' = r.body
           /\ HandlerReturn("enhanceSemanticStructure", r.threw)
    /\ UNCHANGED <<inputs, bodyParsed, head, rootAttrs, beacons, listening, readyFired,
                   pcScript, keywordReport, console>>

CallAddBotOnlyContent ==
    /\ HandlerAt("addBotOnlyContent")
    /\ body' = AddBotOnlyContent(body, title)
    /\ HandlerReturn("addBotOnlyContent", FALSE)
    /\ UNCHANGED <<inputs, bodyParsed, landmarks, head, rootAttrs, beacons, listening,
                   readyFired, pcScript, keywordReport, console>>

CallOptimizeMediaLoading ==
    /\ HandlerAt("optimizeMediaLoading")
    /\ body' = OptimizeMediaLoading(body, hasLoadingProp)
    /\ HandlerReturn("optimizeMediaLoading", FALSE)
    /\ UNCHANGED <<inputs, bodyParsed, landmarks, head, rootAttrs, beacons, listening,
                   readyFired, pcScript, keywordReport, console>>

CallGenerateDynamicSitemap ==
    /\ HandlerAt("generateDynamicSitemap")
    /\ LET r == GenerateDynamicSitemap(body)
       IN  /\ body' = r.body
           /\ HandlerReturn("generateDynamicSitemap", r.threw)
    /\ UNCHANGED <<inputs, bodyParsed, landmarks, head, rootAttrs, beacons, listening,
                   readyFired, pcScript, keywordReport, console>>

CallSendIndexingSignals ==
    /\ HandlerAt("sendIndexingSignals")
    /\ beacons' = SendBeacons(beacons, hasBeacon)
    /\ rootAttrs' = SetAttribute(rootAttrs, "data-seo-enhanced", "true")
    /\ HandlerReturn("sendIndexingSignals", FALSE)
    /\ UNCHANGED <<inputs, bodyParsed, landmarks, body, head, listening, readyFired,
                   pcScript, keywordReport, console>>

ScriptEvaluation ==
    \/ AddEventListener
    \/ NewContentPrioritizer
    \/ CallAnalyzeKeywordDensity
    \/ ConsoleLog
    \/ GeneratePersonSchema
    \/ GenerateBreadcrumbSchema
    \/ GenerateFAQSchema

Handler ==
    \/ CallEnhanceSemanticStructure
    \/ CallAddBotOnlyContent
    \/ CallOptimizeMediaLoading
    \/ CallGenerateDynamicSitemap
    \/ CallSendIndexingSignals

Next == ScriptEvaluation \/ DOMContentLoaded \/ Handler

Spec == Init /\ [][Next]_vars

----------------------------------------------------------------------------
(* analyzeKeywordDensity on its own: the script evaluated on pages of text. *)

TextChunks ==
    {"SEO Specialist, Seo SPECIALIST", "seo specialist in Pakistan", "Technical ",
     "My PORTFOLIO: Mansoor Ahmad", "keyword research", "x"}

TextPages == UNION {[1..n -> {Paragraph(t) : t \in TextChunks}] : n \in 0..MaxParas}

InitKeyword ==
    /\ InitDocument(TextPages)
    /\ hasBeacon = TRUE
    /\ hasLoadingProp = TRUE
    /\ bodyParsed \in BOOLEAN
    /\ landmarks = [sel \in {"main", "nav"} \cup PageSections |-> NoAttrs]

SpecKeyword == InitKeyword /\ [][ScriptEvaluation]_vars

----------------------------------------------------------------------------
(* addBotOnlyContent called any number of times on a parsed page. *)

Runs == Cardinality({i \in DOMAIN trace : trace[i] = "addBotOnlyContent"})

InitRepeat ==
    /\ InitDocument(Pages)
    /\ hasBeacon = TRUE
    /\ hasLoadingProp = TRUE
    /\ bodyParsed = TRUE
    /\ landmarks = [sel \in {"main", "nav"} \cup PageSections |-> NoAttrs]

InvokeAddBotOnlyContent ==
    /\ Runs < MaxRuns
    /\ body' = AddBotOnlyContent(body, title)
    /\ trace' = Append(trace, "addBotOnlyContent")
    /\ UNCHANGED <<inputs, bodyParsed, landmarks, head, rootAttrs, beacons, listening,
                   readyFired, pcScript, pcHandler, keywordReport, console>>

SpecRepeat == InitRepeat /\ [][InvokeAddBotOnlyContent]_vars

----------------------------------------------------------------------------
(* Vocabulary of the properties. *)

\* Steps 1 to 5 as the specification lists them.
ListedSteps ==
    << "enhanceSemanticStructure", "addBotOnlyContent", "optimizeMediaLoading",
       "generateDynamicSitemap", "sendIndexingSignals" >>

Completed(name) == name \in Range(trace)

\* The place in the history at which the call (or the signal) happened.
When(name) == CHOOSE i \in DOMAIN trace : trace[i] = name

Before(a, b) == Completed(a) /\ Completed(b) /\ When(a) < When(b)

Blocks(b, class) == SelectSeq(b, LAMBDA el : class \in ClassList(el))

Flagged ==
    "data-seo-enhanced" \in DOMAIN rootAttrs /\ rootAttrs["data-seo-enhanced"] = "true"

HandlerCompleted == readyFired /\ pcHandler = Len(HandlerSteps) + 1

PageAnchors == SelectSeq(page, LAMBDA el : IsTag(el, "a") /\ HasAttribute(el, "href"))

PageHrefs == [i \in DOMAIN PageAnchors |-> ResolvedURL(PageAnchors[i].attrs["href"])]

AllHrefsParse == \A i \in DOMAIN PageHrefs : URLParses(PageHrefs[i])

AllItemsHaveHeading ==
    \A i \in DOMAIN page :
        IsPortfolioItem(page[i]) => \E k \in DOMAIN page[i].kids : IsTag(page[i].kids[k], "h3")

HasLandmarks == {"main", "nav"} \subseteq DOMAIN landmarks

\* The href of every entry of a sitemap block, in list order.
EntryHrefs(block) ==
    LET items == block.kids[2].kids
    IN  [i \in DOMAIN items |-> items[i].kids[1].attrs["href"]]

TopImgs(b) == SelectSeq(b, LAMBDA el : IsTag(el, "img"))

----------------------------------------------------------------------------
(* C1: on a page whose main or nav container is absent (and that is         *)
(* otherwise well formed) the pass is not aborted: once the handler has     *)
(* ended, steps 2 to 5 have all run, the hidden block and the sitemap block *)
(* are appended and the root is flagged data-seo-enhanced.                  *)
C1_MissingContainerDoesNotAbort ==
    (HandlerEnded /\ ~HasLandmarks /\ AllItemsHaveHeading /\ AllHrefsParse)
        => /\ \A i \in 2..Len(ListedSteps) : Completed(ListedSteps[i])
           /\ Len(Blocks(body, "bot-only-content")) = 1
           /\ Len(Blocks(body, "hidden-sitemap")) = 1
           /\ Flagged

----------------------------------------------------------------------------
\* The seven steps in the order the specification lists them.
SevenSteps == ListedSteps \o <<"ContentPrioritizer", "analyzeKeywordDensity">>

----------------------------------------------------------------------------
(* C3: a portfolio entry without a heading does not make structural         *)
(* annotation throw: on a page with both containers and parseable links,    *)
(* once the handler has ended every portfolio entry carries an aria-label   *)
(* and every step of the pass has run.                                      *)
C3_MissingHeadingDoesNotThrow ==
    (HandlerEnded /\ HasLandmarks /\ AllHrefsParse /\ ~AllItemsHaveHeading)
        => /\ \A i \in DOMAIN body :
                  IsPortfolioItem(body[i]) => HasAttribute(body[i], "aria-label")
           /\ HandlerCompleted

----------------------------------------------------------------------------
(* C4: a malformed href does not crash the sitemap pass: on a page with     *)
(* both containers and headings on every entry, once the handler has ended  *)
(* the sitemap block is appended, it lists every parseable distinct link,   *)
(* and the indexing signal step has run.                                    *)
C4_MalformedHrefDoesNotCrash ==
    (HandlerEnded /\ HasLandmarks /\ AllItemsHaveHeading /\ ~AllHrefsParse)
        => /\ Len(Blocks(body, "hidden-sitemap")) = 1
           /\ \A i \in DOMAIN PageHrefs :
                  URLParses(PageHrefs[i])
                      => PageHrefs[i] \in Range(EntryHrefs(Blocks(body, "hidden-sitemap")[1]))
           /\ Completed("sendIndexingSignals")

----------------------------------------------------------------------------
(* C5: after optimizeMediaLoading every image without a loading attribute   *)
(* has no src, has the class lazyload, has data-src equal to its original   *)
(* source and directly follows a noscript wrapping an image with that       *)
(* source; every image with a loading attribute is unchanged.               *)
C5_UnmarkedImagesAreDeferred ==
    Completed("optimizeMediaLoading")
        => /\ Len(TopImgs(body)) = Len(TopImgs(page))
           /\ \A i \in DOMAIN body :
                  (IsTag(body[i], "img") /\ ~HasAttribute(body[i], "loading"))
                      => /\ ~HasAttribute(body[i], "src")
                         /\ "lazyload" \in ClassList(body[i])
                         /\ HasAttribute(body[i], "data-src")
                         /\ i > 1
                         /\ IsTag(body[i - 1], "noscript")
                         /\ body[i - 1].kids[1].attrs["src"] = body[i].attrs["data-src"]
           /\ \A k \in DOMAIN TopImgs(page) :
                  IF HasAttribute(TopImgs(page)[k], "loading")
                  THEN TopImgs(body)[k] = TopImgs(page)[k]
                  ELSE /\ HasAttribute(TopImgs(body)[k], "data-src")
                       /\ TopImgs(body)[k].attrs["data-src"] = SrcProperty(TopImgs(page)[k])

----------------------------------------------------------------------------
\* The index of the first occurrence of x in seq.
FirstAt(seq, x) == CHOOSE i \in DOMAIN seq : seq[i] = x /\ \A j \in 1..(i - 1) : seq[j] # x

(* C6: the sitemap block that generateDynamicSitemap appends lists exactly  *)
(* the M distinct hrefs of the page's N anchors, each once, in the order of *)
(* their first appearance; with no anchor the step still completes and      *)
(* appends a block with an empty list.                                      *)
C6_SitemapListsDistinctHrefsInOrder ==
    /\ Completed("generateDynamicSitemap") <=> Len(Blocks(body, "hidden-sitemap")) = 1
    /\ Len(Blocks(body, "hidden-sitemap")) <= 1
    /\ Completed("generateDynamicSitemap") =>
           LET entries == EntryHrefs(Blocks(body, "hidden-sitemap")[1])
           IN  /\ Len(entries) = Cardinality(Range(PageHrefs))
               /\ Range(entries) = Range(PageHrefs)
               /\ \A i, j \in DOMAIN entries :
                      i < j => FirstAt(PageHrefs, entries[i]) < FirstAt(PageHrefs, entries[j])
               /\ body[Len(body)] = Blocks(body, "hidden-sitemap")[1]
    /\ (Completed("optimizeMediaLoading") /\ ~HandlerAt("generateDynamicSitemap")
            /\ PageHrefs = <<>>)
           => Completed("generateDynamicSitemap")

\* Three anchors, two distinct hrefs, the repeated one first and last.
C6_Witness ==
    /\ Completed("generateDynamicSitemap")
    /\ Len(PageHrefs) = 3
    /\ PageHrefs[1] = PageHrefs[3]
    /\ PageHrefs[1] # PageHrefs[2]
    /\ Len(EntryHrefs(Blocks(body, "hidden-sitemap")[1])) = 2

----------------------------------------------------------------------------
(* C7: once the script has been evaluated the head holds the three          *)
(* structured-data blocks, of types Person, BreadcrumbList and FAQPage,     *)
(* whatever became of priority tagging and of the keyword density check.    *)
C7_ThreeStructuredDataBlocks ==
    ScriptEnded
        => \A t \in {"Person", "BreadcrumbList", "FAQPage"} :
               Cardinality({i \in DOMAIN head :
                               head[i].type = "application/ld+json"
                                   /\ head[i].json["@type"] = t}) = 1

----------------------------------------------------------------------------
(* C8: sendIndexingSignals sends exactly one ping when navigator.sendBeacon *)
(* exists and none, without an error, when it does not; either way it then  *)
(* flags the root, and the flag is present only after steps 1 to 4 of the   *)
(* same pass have completed.                                                *)
C8_OnePingIfCapableAndFlagLast ==
    /\ Completed("sendIndexingSignals")
           => /\ beacons = (IF hasBeacon THEN <<PingUrl>> ELSE <<>>)
              /\ Flagged
              /\ HandlerCompleted
    /\ ~Completed("sendIndexingSignals") => (beacons = <<>> /\ ~Flagged)
    /\ Flagged => \A i \in 1..4 : Before(ListedSteps[i], "sendIndexingSignals")

\* The runtime has no sendBeacon: nothing was sent and the root is flagged.
C8_Witness ==
    Completed("sendIndexingSignals") /\ ~hasBeacon /\ beacons = <<>> /\ Flagged

----------------------------------------------------------------------------
\* The places of text at which keyword stands, letter case ignored.
Occurrences(keyword, text) ==
    Cardinality({i \in 1..Len(text) :
                    /\ i + Len(keyword) - 1 <= Len(text)
                    /\ ToLowerCase(SubSeq(text, i, i + Len(keyword) - 1)) = keyword})

(* C9: for every keyword of the list the report holds the number of         *)
(* occurrences of the keyword in the page text, letter case ignored, 0 when *)
(* there is none; it depends on the text and on that keyword alone.         *)
C9_ReportCountsOccurrencesIgnoringCase ==
    Completed("analyzeKeywordDensity")
        => /\ DOMAIN keywordReport = Keywords
           /\ \A k \in Keywords : keywordReport[k] = Occurrences(k, ConcatText(page))

\* "SEO Specialist" three times in three letter cases, beside other keywords.
C9_Witness ==
    /\ Completed("analyzeKeywordDensity")
    /\ keywordReport["seo specialist"] = 3
    /\ Occurrences("seo specialist", ToLowerCase(ConcatText(page))) = 3
    /\ ConcatText(page) # ToLowerCase(ConcatText(page))
    /\ keywordReport["keyword research"] = 0

----------------------------------------------------------------------------
(* C10: k runs of addBotOnlyContent leave exactly k hidden blocks, all      *)
(* alike, appended after the children the body had, which are unchanged.    *)
C10_EveryRunAppendsABlock ==
    /\ Len(Blocks(body, "bot-only-content")) = Runs
    /\ Len(body) = Len(page) + Runs
    /\ SubSeq(body, 1, Len(page)) = page
    /\ \A i \in (Len(page) + 1)..Len(body) : body[i] = BotContent(title)

\* Two runs, two duplicate blocks.
C10_Witness ==
    /\ Runs = 2
    /\ Len(body) >= 2
    /\ body[Len(body)] = body[Len(body) - 1]
    /\ "bot-only-content" \in ClassList(body[Len(body)])

====
